---- MODULE Spec2Model ----
(***************************************************************************)
(* A model of cartopy's feature module (lib/cartopy/feature.py): the       *)
(* Feature class hierarchy, the two geometry caches and the GSHHS scale    *)
(* selection.                                                              *)
(*                                                                         *)
(* Lengths are integers in units of 1/20 of a degree, so that the limits   *)
(* 20.0, 10.0, 2.0, 0.5 and 0.1 degrees of _scale_from_extent are the      *)
(* integers 400, 200, 40, 10 and 2, and an extent of 0.05 degrees is 1.    *)
(* A geometry is an axis-aligned closed rectangle given by its bounds.     *)
(* An extent is <<x0, x1, y0, y1>>; the extent None is the empty tuple.    *)
(* A tuple object is [gen, items]: gen tells one tuple object from another *)
(* with equal items (gen = n for the tuple built by the n-th read of a     *)
(* file, 0 for a tuple built from the caller's geometries).                *)
(***************************************************************************)
EXTENDS Integers, Sequences, FiniteSets, TLC

VARIABLES
    features,    \* the Feature instances alive, in order of construction
    dicts,       \* the dict objects: _kwargs of each feature, and copies handed out
    held,        \* the dict objects the caller holds (returned by Feature.kwargs)
    neCache,     \* _NATURAL_EARTH_GEOM_CACHE
    gshhsCache,  \* GSHHSFeature._geometries_cache
    neReads,     \* number of shapereader.Reader(path).geometries() per Natural Earth file
    gshhsReads,  \* the same per GSHHS file
    iters,       \* the GSHHS generators handed out, in order of creation
    result,      \* what the last call returned or raised
    passed       \* history: the kwargs each constructor call was given

vars == <<features, dicts, held, neCache, gshhsCache, neReads, gshhsReads, iters,
          result, passed>>

----------------------------------------------------------------------------
(* Bounds of the model *)

MaxFeatures == 2     \* instances constructed after import
MaxIters == 2        \* iterators referenced at a time
MaxReads == 2        \* reads of one file
MaxDicts == 2        \* dict objects handed out by Feature.kwargs
MaxCtorFeatures == 1 \* instances constructed after import, constructor specification
MaxAllFeatures == 2  \* instances constructed after import, all classes together
MaxAllIters == 1     \* iterators referenced at a time, all classes together

----------------------------------------------------------------------------
(* Values *)

NoExtent == <<>>

Rect(minx, maxx, miny, maxy) ==
    [minx |-> minx, maxx |-> maxx, miny |-> miny, maxy |-> maxy]

Min(a, b) == IF a <= b THEN a ELSE b
Max(a, b) == IF a >= b THEN a ELSE b
Abs(a) == IF a < 0 THEN -a ELSE a

\* shapely.geometry.box(minx, miny, maxx, maxy): the rectangle through the
\* four corners (minx, miny), (minx, maxy), (maxx, maxy), (maxx, miny).
Box(minx, miny, maxx, maxy) ==
    Rect(Min(minx, maxx), Max(minx, maxx), Min(miny, maxy), Max(miny, maxy))

\* a.intersects(b) of two closed rectangles
Intersects(a, b) ==
    /\ a.minx <= b.maxx /\ b.minx <= a.maxx
    /\ a.miny <= b.maxy /\ b.miny <= a.maxy

\* The box of a mutated call: the extent passed to box() in its own order.
ExtentGeomUnswapped(extent) == Box(extent[1], extent[2], extent[3], extent[4])

\* extent_geom = shapely.geometry.box(extent[0], extent[2], extent[1], extent[3])
ExtentGeom(extent) == Box(extent[1], extent[3], extent[2], extent[4])

\* The geometries the shapefiles on disk hold.
GeomNear == Rect(0, 2, 0, 2)
GeomFar == Rect(300, 320, 300, 320)
GeomPoint == Rect(3, 3, 3, 3)
GeomWide == Rect(-400, 400, 10, 12)

NoTuple == [gen |-> 0, items |-> <<>>]
Tuple(gen, items) == [gen |-> gen, items |-> items]

----------------------------------------------------------------------------
(* Dict objects: a dict is a function from its keys to their values. *)

EmptyDict == [k \in {} |-> ""]

\* d[k] = v
DictPut(d, k, v) == [x \in DOMAIN d \cup {k} |-> IF x = k THEN v ELSE d[x]]

\* del d[k]
DictDel(d, k) == [x \in DOMAIN d \ {k} |-> d[x]]

\* A mutated setdefault that overwrites a key the caller passed.
SetDefaultOverwrites(d, k, v) == DictPut(d, k, v)

\* d.setdefault(k, v)
SetDefault(d, k, v) == IF k \in DOMAIN d THEN d ELSE DictPut(d, k, v)

----------------------------------------------------------------------------
(* Feature instances *)

NoLevels == {}

Feature(cls, crs, kwargs, geoms, category, name, scale, levels) ==
    [cls |-> cls, crs |-> crs, kwargs |-> kwargs, geoms |-> geoms,
     category |-> category, name |-> name, scale |-> scale, levels |-> levels]

\* The arguments of the six module-level NaturalEarthFeature(...) calls.
ModuleFeatureArgs ==
    << [var |-> "BORDERS", category |-> "cultural",
        name |-> "admin_0_boundary_lines_land", scale |-> "110m",
        kwargs |-> DictPut(DictPut(EmptyDict, "edgecolor", "black"), "facecolor", "none")],
       [var |-> "COASTLINE", category |-> "physical",
        name |-> "coastline", scale |-> "110m",
        kwargs |-> DictPut(DictPut(EmptyDict, "edgecolor", "black"), "facecolor", "none")],
       [var |-> "LAKES", category |-> "physical",
        name |-> "lakes", scale |-> "110m",
        kwargs |-> DictPut(DictPut(EmptyDict, "edgecolor", "face"), "facecolor", "COLOURS.water")],
       [var |-> "LAND", category |-> "physical",
        name |-> "land", scale |-> "110m",
        kwargs |-> DictPut(DictPut(EmptyDict, "edgecolor", "face"), "facecolor", "COLOURS.land")],
       [var |-> "OCEAN", category |-> "physical",
        name |-> "ocean", scale |-> "110m",
        kwargs |-> DictPut(DictPut(EmptyDict, "edgecolor", "face"), "facecolor", "COLOURS.water")],
       [var |-> "RIVERS", category |-> "physical",
        name |-> "rivers_lake_centerlines", scale |-> "110m",
        kwargs |-> DictPut(DictPut(EmptyDict, "edgecolor", "COLOURS.water"), "facecolor", "none")] >>

NumModuleFeatures == Len(ModuleFeatureArgs)

\* key = (self.name, self.category, self.scale)
NEKey(f) == <<f.name, f.category, f.scale>>

\* The Natural Earth datasets on disk, by key.
NEKeys ==
    { <<ModuleFeatureArgs[i].name, ModuleFeatureArgs[i].category, ModuleFeatureArgs[i].scale>> :
        i \in 1..NumModuleFeatures }
    \cup { <<"coastline", "physical", "50m">> }

\* tuple(shapereader.Reader(path).geometries()) for the file of a key: what
\* the shapefile holds.
NEFile(key) ==
    CASE key[1] = "coastline" /\ key[3] = "110m" -> <<GeomNear, GeomFar>>
      [] key[1] = "coastline" /\ key[3] = "50m" -> <<GeomNear, GeomPoint, GeomFar>>
      [] key[1] = "lakes" -> <<>>
      [] key[1] = "admin_0_boundary_lines_land" -> <<GeomWide, GeomNear>>
      [] OTHER -> <<GeomFar>>

GSHHSScaleLetters == {"c", "l", "i", "h", "f"}
GSHHSLevels == {1, 2, 3, 4}
GSHHSKeys == { <<s, l>> : s \in GSHHSScaleLetters, l \in GSHHSLevels }

\* tuple(shapereader.Reader(path).geometries()) for the GSHHS file of a
\* scale and a level.
GSHHSFile(scale, level) ==
    CASE scale = "c" /\ level = 1 -> <<GeomNear, GeomFar>>
      [] scale = "c" /\ level = 2 -> <<>>
      [] scale = "f" /\ level = 1 -> <<GeomFar, GeomNear>>
      [] level = 2 -> <<GeomPoint>>
      [] OTHER -> <<GeomWide>>

----------------------------------------------------------------------------
(* Results of calls *)

\* levels=None
LevelsNone == [none |-> TRUE, list |-> <<>>]
\* levels=[...]
LevelsList(list) == [none |-> FALSE, list |-> list]

NoIter == [kind |-> "none", geoms |-> NoTuple, gi |-> 0, extent |-> NoExtent]

\* iter(t) of a tuple t
TupleIterator(t) == [kind |-> "tuple_iterator", geoms |-> t, gi |-> 1, extent |-> NoExtent]

\* (geom for geom in <tuple iterator> if extent_geom.intersects(geom))
GenExp(t, extent) == [kind |-> "genexp", geoms |-> t, gi |-> 1, extent |-> extent]

Result(op, feat, exc, ref, it, scale, extent) ==
    [op |-> op, feat |-> feat, exc |-> exc, ref |-> ref, iter |-> it,
     scale |-> scale, extent |-> extent, hit |-> FALSE, levels |-> LevelsNone]

Returned(op, feat) == Result(op, feat, "", 0, NoIter, "", NoExtent)
Raised(op, exc) == Result(op, 0, exc, 0, NoIter, "", NoExtent)

----------------------------------------------------------------------------
(* State when the module body has run up to the module-level features:    *)
(* both caches exist and are empty, no feature has been constructed.       *)

Init ==
    /\ features = <<>>
    /\ dicts = <<>>
    /\ held = {}
    /\ neCache = [k \in {} |-> NoTuple]
    /\ gshhsCache = [k \in {} |-> NoTuple]
    /\ neReads = [k \in NEKeys |-> 0]
    /\ gshhsReads = [k \in GSHHSKeys |-> 0]
    /\ iters = <<>>
    /\ result = Returned("import", 0)
    /\ passed = <<>>

\* The module body has run to its end.
Imported == Len(features) >= NumModuleFeatures

----------------------------------------------------------------------------
(* Constructors *)

\* ShapelyFeature(geometries, crs, **kwargs)
ShapelyFeatureInit(geometries, crs, kwargs) ==
    /\ features' = Append(features,
                          Feature("ShapelyFeature", crs, Len(dicts) + 1,
                                  Tuple(0, geometries), "", "", "", NoLevels))
    /\ dicts' = Append(dicts, kwargs)
    /\ passed' = Append(passed, kwargs)
    /\ result' = Returned("ShapelyFeature", Len(features) + 1)
    /\ UNCHANGED <<held, neCache, gshhsCache, neReads, gshhsReads, iters>>

\* A mutated constructor that loads the geometries at once.
NaturalEarthFeatureInitEager(category, name, scale, kwargs) ==
    LET key == <<name, category, scale>>
    IN /\ features' = Append(features,
                             Feature("NaturalEarthFeature", "PlateCarree", Len(dicts) + 1,
                                     NoTuple, category, name, scale, NoLevels))
       /\ dicts' = Append(dicts, kwargs)
       /\ passed' = Append(passed, kwargs)
       /\ result' = Returned("NaturalEarthFeature", Len(features) + 1)
       /\ neCache' = [k \in DOMAIN neCache \cup {key} |->
                        IF k = key THEN [gen |-> 1, items |-> <<>>] ELSE neCache[k]]
       /\ UNCHANGED <<held, gshhsCache, neReads, gshhsReads, iters>>

\* NaturalEarthFeature(category, name, scale, **kwargs)
NaturalEarthFeatureInit(category, name, scale, kwargs) ==
    /\ features' = Append(features,
                          Feature("NaturalEarthFeature", "PlateCarree", Len(dicts) + 1,
                                  NoTuple, category, name, scale, NoLevels))
    /\ dicts' = Append(dicts, kwargs)
    /\ passed' = Append(passed, kwargs)
    /\ result' = Returned("NaturalEarthFeature", Len(features) + 1)
    /\ UNCHANGED <<held, neCache, gshhsCache, neReads, gshhsReads, iters>>

\* BORDERS = ..., COASTLINE = ..., ... RIVERS = ...: the next module-level
\* assignment of the module body.
ModuleBody ==
    /\ Len(features) < NumModuleFeatures
    /\ LET a == ModuleFeatureArgs[Len(features) + 1]
       IN NaturalEarthFeatureInit(a.category, a.name, a.scale, a.kwargs)

\* The scales GSHHSFeature.__init__ accepts.
KnownScales == {"auto", "a", "coarse", "c", "low", "l",
                "intermediate", "i", "high", "h", "full", "f"}

Range(seq) == { seq[i] : i \in 1..Len(seq) }

\* set(levels), with the default [1] for None
LevelsSet(levels) == IF levels.none THEN {1} ELSE Range(levels.list)

\* A mutated check that leaves out level 4.
UnknownLevelsBelow4(levelset) == levelset \ {1, 2, 3}

\* unknown_levels = self._levels.difference([1, 2, 3, 4])
UnknownLevels(levelset) == levelset \ {1, 2, 3, 4}

\* GSHHSFeature(scale, levels, **kwargs)
GSHHSFeatureInit(scale, levels, kwargs) ==
    IF scale \notin KnownScales
    THEN /\ result' = [Raised("GSHHSFeature", "ValueError: Unknown GSHHS scale")
                         EXCEPT !.scale = scale, !.levels = levels]
         /\ UNCHANGED <<features, dicts, held, neCache, gshhsCache,
                        neReads, gshhsReads, iters, passed>>
    ELSE IF UnknownLevels(LevelsSet(levels)) # {}
    THEN /\ result' = [Raised("GSHHSFeature", "ValueError: Unknown GSHHS levels")
                         EXCEPT !.scale = scale, !.levels = levels]
         /\ UNCHANGED <<features, dicts, held, neCache, gshhsCache,
                        neReads, gshhsReads, iters, passed>>
    ELSE /\ features' = Append(features,
                               Feature("GSHHSFeature", "PlateCarree", Len(dicts) + 1,
                                       NoTuple, "", "", scale, LevelsSet(levels)))
         /\ dicts' = Append(dicts,
                            SetDefault(SetDefault(kwargs, "edgecolor", "black"),
                                       "facecolor", "none"))
         /\ passed' = Append(passed, kwargs)
         /\ result' = [Returned("GSHHSFeature", Len(features) + 1)
                         EXCEPT !.scale = scale, !.levels = levels]
         /\ UNCHANGED <<held, neCache, gshhsCache, neReads, gshhsReads, iters>>

----------------------------------------------------------------------------
(* Feature.kwargs, and what a caller can do with the dict it returns *)

\* f.kwargs: return dict(self._kwargs)
Kwargs(fi) ==
    /\ fi \in 1..Len(features)
    /\ dicts' = Append(dicts, dicts[features[fi].kwargs])
    /\ held' = held \cup {Len(dicts) + 1}
    /\ result' = Result("kwargs", fi, "", Len(dicts) + 1, NoIter, "", NoExtent)
    /\ UNCHANGED <<features, neCache, gshhsCache, neReads, gshhsReads, iters, passed>>

\* d[k] = v on a dict the caller holds
CallerSetItem(ref, k, v) ==
    /\ ref \in held
    /\ dicts' = [dicts EXCEPT ![ref] = DictPut(@, k, v)]
    /\ result' = Result("setitem", 0, "", ref, NoIter, "", NoExtent)
    /\ UNCHANGED <<features, held, neCache, gshhsCache, neReads, gshhsReads, iters,
                   passed>>

\* del d[k] on a dict the caller holds
CallerDelItem(ref, k) ==
    /\ ref \in held
    /\ k \in DOMAIN dicts[ref]
    /\ dicts' = [dicts EXCEPT ![ref] = DictDel(@, k)]
    /\ result' = Result("delitem", 0, "", ref, NoIter, "", NoExtent)
    /\ UNCHANGED <<features, held, neCache, gshhsCache, neReads, gshhsReads, iters,
                   passed>>

----------------------------------------------------------------------------
(* geometries() and intersecting_geometries() of ShapelyFeature and        *)
(* NaturalEarthFeature                                                     *)

\* cache[key] = value
CachePut(cache, key, value) ==
    [k \in DOMAIN cache \cup {key} |-> IF k = key THEN value ELSE cache[k]]

\* A mutated NaturalEarthFeature.geometries() that never finds its key in
\* the cache.
NEGeometriesUncached(f, cache, reads) ==
    LET key == NEKey(f)
        geometries == Tuple(reads[key] + 1, NEFile(key))
    IN [cache |-> CachePut(cache, key, geometries),
        reads |-> [reads EXCEPT ![key] = @ + 1],
        geoms |-> geometries, hit |-> FALSE]

\* The body of NaturalEarthFeature.geometries() up to its return: the cache
\* and the read counts it leaves, the tuple it iterates over, and whether
\* it took the else branch (hit).
NEGeometries(f, cache, reads) ==
    LET key == NEKey(f)
    IN IF key \notin DOMAIN cache
       THEN LET geometries == Tuple(reads[key] + 1, NEFile(key))
            IN [cache |-> CachePut(cache, key, geometries),
                reads |-> [reads EXCEPT ![key] = @ + 1],
                geoms |-> geometries, hit |-> FALSE]
       ELSE [cache |-> cache, reads |-> reads, geoms |-> cache[key], hit |-> TRUE]

\* self.geometries() of a ShapelyFeature or a NaturalEarthFeature
BaseGeometries(f, cache, reads) ==
    IF f.cls = "NaturalEarthFeature"
    THEN NEGeometries(f, cache, reads)
    ELSE [cache |-> cache, reads |-> reads, geoms |-> f.geoms, hit |-> FALSE]

\* f.geometries() for a ShapelyFeature or a NaturalEarthFeature
Geometries(fi) ==
    /\ fi \in 1..Len(features)
    /\ features[fi].cls \in {"ShapelyFeature", "NaturalEarthFeature"}
    /\ LET r == BaseGeometries(features[fi], neCache, neReads)
       IN /\ \A k \in NEKeys : r.reads[k] <= MaxReads
          /\ neCache' = r.cache
          /\ neReads' = r.reads
          /\ result' = [Result("geometries", fi, "", 0, TupleIterator(r.geoms),
                               "", NoExtent) EXCEPT !.hit = r.hit]
    /\ UNCHANGED <<features, dicts, held, gshhsCache, gshhsReads, iters, passed>>

\* Feature.intersecting_geometries(extent), not overridden by ShapelyFeature
\* and NaturalEarthFeature.  The generator expression evaluates
\* self.geometries() when it is created.
IntersectingGeometries(fi, extent) ==
    /\ fi \in 1..Len(features)
    /\ features[fi].cls \in {"ShapelyFeature", "NaturalEarthFeature"}
    /\ LET r == BaseGeometries(features[fi], neCache, neReads)
       IN /\ \A k \in NEKeys : r.reads[k] <= MaxReads
          /\ neCache' = r.cache
          /\ neReads' = r.reads
          /\ result' = [Result("intersecting_geometries", fi, "", 0,
                               IF extent # NoExtent
                               THEN GenExp(r.geoms, extent)
                               ELSE TupleIterator(r.geoms),
                               "", extent) EXCEPT !.hit = r.hit]
    /\ UNCHANGED <<features, dicts, held, gshhsCache, gshhsReads, iters, passed>>

\* next(it) of an iterator returned by the two methods above: the iterator
\* after the call, and the geometry it yields (none on StopIteration).
RECURSIVE IteratorNext(_)
IteratorNext(it) ==
    IF it.gi > Len(it.geoms.items)
    THEN [iter |-> it, yielded |-> <<>>]
    ELSE IF it.kind = "tuple_iterator"
            \/ Intersects(ExtentGeom(it.extent), it.geoms.items[it.gi])
    THEN [iter |-> [it EXCEPT !.gi = @ + 1], yielded |-> <<it.geoms.items[it.gi]>>]
    ELSE IteratorNext([it EXCEPT !.gi = @ + 1])

\* list(it): the geometries next(it) yields until StopIteration
RECURSIVE Consume(_)
Consume(it) ==
    LET n == IteratorNext(it)
    IN IF n.yielded = <<>> THEN <<>> ELSE n.yielded \o Consume(n.iter)

----------------------------------------------------------------------------
(* GSHHSFeature._scale_from_extent *)

\* scale_limits, in units of 1/20 degree: 20.0, 10.0, 2.0, 0.5, 0.1
ScaleLimits ==
    << [scale |-> "c", limit |-> 400],
       [scale |-> "l", limit |-> 200],
       [scale |-> "i", limit |-> 40],
       [scale |-> "h", limit |-> 10],
       [scale |-> "f", limit |-> 2] >>

\* A mutated comparison that also breaks on the limit itself.
ExceedsOrMeets(min_extent, limit) == min_extent >= limit

\* min_extent > limit
Exceeds(min_extent, limit) == min_extent > limit

\* for scale, limit in scale_limits: if min_extent > limit: break
\* The value of scale when the loop is left, entered at entry i.
RECURSIVE ScanLimits(_, _)
ScanLimits(i, min_extent) ==
    IF Exceeds(min_extent, ScaleLimits[i].limit) \/ i = Len(ScaleLimits)
    THEN ScaleLimits[i].scale
    ELSE ScanLimits(i + 1, min_extent)

\* min(abs(extent[1] - extent[0]), abs(extent[3] - extent[2]))
MinExtent(extent) == Min(Abs(extent[2] - extent[1]), Abs(extent[4] - extent[3]))

\* self._scale_from_extent(extent)
ScaleFromExtent(extent) ==
    IF extent # NoExtent
    THEN IF MinExtent(extent) # 0
         THEN ScanLimits(1, MinExtent(extent))
         ELSE "c"
    ELSE "c"

\* f._scale_from_extent(extent) called on a GSHHSFeature
CallScaleFromExtent(fi, extent) ==
    /\ fi \in 1..Len(features)
    /\ features[fi].cls = "GSHHSFeature"
    /\ result' = Result("_scale_from_extent", fi, "", 0, NoIter,
                        ScaleFromExtent(extent), extent)
    /\ UNCHANGED <<features, dicts, held, neCache, gshhsCache, neReads,
                   gshhsReads, iters, passed>>

----------------------------------------------------------------------------
(* GSHHSFeature.geometries() and GSHHSFeature.intersecting_geometries():   *)
(* a generator function, whose body runs only inside next().               *)

\* self._scale[0]
FirstLetter(scale) ==
    CASE scale \in {"auto", "a"} -> "a"
      [] scale \in {"coarse", "c"} -> "c"
      [] scale \in {"low", "l"} -> "l"
      [] scale \in {"intermediate", "i"} -> "i"
      [] scale \in {"high", "h"} -> "h"
      [] scale \in {"full", "f"} -> "f"

\* The orders in which "for level in self._levels" can visit a set.
Orders(levelset) ==
    { o \in [1..Cardinality(levelset) -> levelset] : Range(o) = levelset }

Generator(fi, extent) ==
    [feat |-> fi, extent |-> extent, pc |-> "new", scale |-> "", order |-> <<>>,
     li |-> 0, geoms |-> NoTuple, gi |-> 1, out |-> <<>>]

\* f.intersecting_geometries(extent) of a GSHHSFeature: returns a generator
\* that has not started.
GSHHSIntersectingGeometries(fi, extent) ==
    /\ fi \in 1..Len(features)
    /\ features[fi].cls = "GSHHSFeature"
    /\ iters' = Append(iters, Generator(fi, extent))
    /\ result' = Result("intersecting_geometries", fi, "", Len(iters) + 1,
                        NoIter, "", extent)
    /\ UNCHANGED <<features, dicts, held, neCache, gshhsCache, neReads, gshhsReads,
                   passed>>

\* f.geometries() of a GSHHSFeature
GSHHSGeometries(fi) ==
    /\ fi \in 1..Len(features)
    /\ features[fi].cls = "GSHHSFeature"
    /\ iters' = Append(iters, Generator(fi, NoExtent))
    /\ result' = Result("geometries", fi, "", Len(iters) + 1, NoIter, "", NoExtent)
    /\ UNCHANGED <<features, dicts, held, neCache, gshhsCache, neReads, gshhsReads,
                   passed>>

\* cache.get(key): <<>> stands for None
CacheGet(cache, key) == IF key \in DOMAIN cache THEN <<cache[key]>> ELSE <<>>

\* A mutated test "if not geoms", which also takes an empty tuple for a miss.
IsMissOrEmpty(got) == got = <<>> \/ got[1].items = <<>>

\* geoms is None
IsMiss(got) == got = <<>>

\* Lines 273-279: the tuple for (scale, level), read from the shapefile and
\* stored when the cache has none.
GSHHSLookup(cache, reads, scale, level) ==
    LET key == <<scale, level>>
        got == CacheGet(cache, key)
    IN IF IsMiss(got)
       THEN LET geoms == Tuple(reads[key] + 1, GSHHSFile(scale, level))
            IN [cache |-> CachePut(cache, key, geoms),
                reads |-> [reads EXCEPT ![key] = @ + 1],
                geoms |-> geoms]
       ELSE [cache |-> cache, reads |-> reads, geoms |-> got[1]]

\* The generator body from where it stands to its next yield or its end.
RECURSIVE Resume(_, _, _)
Resume(g, cache, reads) ==
    IF g.gi <= Len(g.geoms.items)
    THEN IF g.extent = NoExtent
            \/ Intersects(ExtentGeom(g.extent), g.geoms.items[g.gi])
         THEN [gen |-> [g EXCEPT !.pc = "running", !.gi = @ + 1,
                                 !.out = Append(@, g.geoms.items[g.gi])],
               cache |-> cache, reads |-> reads]
         ELSE Resume([g EXCEPT !.gi = @ + 1], cache, reads)
    ELSE IF g.li >= Len(g.order)
    THEN [gen |-> [g EXCEPT !.pc = "done"], cache |-> cache, reads |-> reads]
    ELSE LET r == GSHHSLookup(cache, reads, g.scale, g.order[g.li + 1])
         IN Resume([g EXCEPT !.li = @ + 1, !.geoms = r.geoms, !.gi = 1],
                   r.cache, r.reads)

\* next(it) of a GSHHS generator
GeneratorNext(i) ==
    /\ i \in 1..Len(iters)
    /\ iters[i].pc # "done"
    /\ LET g == iters[i]
           f == features[g.feat]
       IN \E order \in Orders(f.levels) :
            LET started ==
                    IF g.pc = "new"
                    THEN [g EXCEPT !.scale = IF f.scale = "auto"
                                             THEN ScaleFromExtent(g.extent)
                                             ELSE FirstLetter(f.scale),
                                   !.order = order]
                    ELSE g
                r == Resume(started, gshhsCache, gshhsReads)
            IN /\ g.pc = "new" \/ order = g.order
               /\ \A k \in GSHHSKeys : r.reads[k] <= MaxReads
               /\ iters' = [iters EXCEPT ![i] = r.gen]
               /\ gshhsCache' = r.cache
               /\ gshhsReads' = r.reads
               /\ result' = Result("next", g.feat,
                                    IF r.gen.pc = "done" THEN "StopIteration" ELSE "",
                                    i, NoIter, "", NoExtent)
    /\ UNCHANGED <<features, dicts, held, neCache, neReads, passed>>

----------------------------------------------------------------------------
(* The inputs the specifications draw from *)

KwargsNone == EmptyDict
KwargsRed == DictPut(EmptyDict, "edgecolor", "red")

NewNEArgs ==
    { [category |-> "physical", name |-> "coastline", scale |-> "110m"],
      [category |-> "physical", name |-> "coastline", scale |-> "50m"] }

ShapelyGeometries == { <<GeomNear, GeomFar>>, <<GeomPoint>> }

\* 0.1 degrees wide and high
ExtentTiny == <<1, 3, 1, 3>>
\* 27.5 degrees wide and high
ExtentBig == <<250, 800, 250, 800>>

Extents == {ExtentTiny, ExtentBig}

\* The features requests are made on: BORDERS, COASTLINE, LAKES and the
\* instances constructed after import.
Targets == {1, 2, 3} \cup (NumModuleFeatures + 1 .. Len(features))

\* Number of instances constructed after import
NumNew == Len(features) - NumModuleFeatures

----------------------------------------------------------------------------
(* Natural Earth and Shapely features: construction and requests *)

NewNaturalEarthFeature ==
    /\ Imported /\ NumNew < MaxFeatures
    /\ \E a \in NewNEArgs, kw \in {KwargsNone, KwargsRed} :
          NaturalEarthFeatureInit(a.category, a.name, a.scale, kw)

NewShapelyFeature ==
    /\ Imported /\ NumNew < MaxFeatures
    /\ \E geometries \in ShapelyGeometries :
          ShapelyFeatureInit(geometries, "PlateCarree", KwargsNone)

RequestGeometries ==
    /\ Imported
    /\ \E fi \in Targets : Geometries(fi)

RequestIntersecting ==
    /\ Imported
    /\ \E fi \in Targets, extent \in Extents \cup {NoExtent} :
          IntersectingGeometries(fi, extent)

NextNE ==
    \/ ModuleBody
    \/ NewNaturalEarthFeature
    \/ NewShapelyFeature
    \/ RequestGeometries
    \/ RequestIntersecting

SpecNE == Init /\ [][NextNE]_vars

----------------------------------------------------------------------------
(* C1 *)

IsBaseRequest ==
    /\ result.op \in {"geometries", "intersecting_geometries"}
    /\ result.iter.kind # "none"

IsNERequest ==
    /\ IsBaseRequest
    /\ features[result.feat].cls = "NaturalEarthFeature"

C1_Inv ==
    /\ \A k \in NEKeys : neReads[k] <= 1
    /\ \A k \in DOMAIN neCache : neReads[k] = 1 /\ neCache[k].items = NEFile(k)
    /\ IsNERequest =>
          /\ NEKey(features[result.feat]) \in DOMAIN neCache
          /\ result.iter.geoms = neCache[NEKey(features[result.feat])]

C1_Step ==
    \A k \in DOMAIN neCache :
        /\ k \in DOMAIN neCache'
        /\ neCache'[k] = neCache[k]
        /\ neReads'[k] = neReads[k]

\* C1: the shapefile of a (name, category, scale) key is read at most once;
\* the first geometries() call for the key reads it and stores the tuple in
\* _NATURAL_EARTH_GEOM_CACHE, every later call for the key, from any
\* instance, reads nothing and iterates over the stored tuple, and a stored
\* tuple is never replaced or removed.
C1_NaturalEarthReadOnce == []C1_Inv /\ [][C1_Step]_vars

\* A new instance with the key of COASTLINE and other kwargs has asked for
\* its geometries after the key was cached, and got the cached tuple.
C1_Witness ==
    /\ IsNERequest
    /\ result.hit
    /\ result.feat > NumModuleFeatures
    /\ NEKey(features[result.feat]) = NEKey(features[2])
    /\ dicts[features[result.feat].kwargs] # dicts[features[2].kwargs]
    /\ neReads[NEKey(features[2])] = 1
    /\ Len(result.iter.geoms.items) > 0

----------------------------------------------------------------------------
(* C5 *)

\* The coordinates at which the geometries and extents of the model begin
\* and end; two closed rectangles with bounds among them share a point
\* exactly when they share a point with coordinates among them.
Coordinates == {-400, 0, 1, 2, 3, 10, 12, 250, 300, 320, 400, 800}

\* The geometry has a point in the box with x-range [x0, x1] and y-range
\* [y0, y1] of the extent (x0, x1, y0, y1).
HasPointInExtent(extent, geom) ==
    \E x \in Coordinates, y \in Coordinates :
        /\ extent[1] <= x /\ x <= extent[2]
        /\ extent[3] <= y /\ y <= extent[4]
        /\ geom.minx <= x /\ x <= geom.maxx
        /\ geom.miny <= y /\ y <= geom.maxy

\* What list(f.geometries()) is in the current state.
AllGeometries(f) == Consume(TupleIterator(BaseGeometries(f, neCache, neReads).geoms))

C5_Expected ==
    LET all == AllGeometries(features[result.feat])
        InExtent(geom) == HasPointInExtent(result.extent, geom)
    IN IF result.extent = NoExtent THEN all ELSE SelectSeq(all, InExtent)

C5_Inv ==
    (IsBaseRequest /\ result.op = "intersecting_geometries") =>
        Consume(result.iter) = C5_Expected

C5_Step ==
    /\ \A i \in 1..Len(features) : features'[i] = features[i]
    /\ \A k \in DOMAIN neCache : k \in DOMAIN neCache' /\ neCache'[k].items = neCache[k].items

\* C5: intersecting_geometries(extent) of a ShapelyFeature or a
\* NaturalEarthFeature yields all geometries of geometries() when extent is
\* None, and otherwise exactly those that intersect the box with x-range
\* [x0, x1] and y-range [y0, y1], in the order of geometries(); no call
\* alters the geometries a feature stores.
C5_IntersectingGeometries == []C5_Inv /\ [][C5_Step]_vars

\* A request with an extent has kept some geometries and dropped others.
C5_Witness ==
    /\ IsBaseRequest
    /\ result.op = "intersecting_geometries"
    /\ result.extent # NoExtent
    /\ Consume(result.iter) # <<>>
    /\ Len(Consume(result.iter)) < Len(AllGeometries(features[result.feat]))

----------------------------------------------------------------------------
(* GSHHS features: construction, requests and steps of their generators *)

\* Instances are constructed with scale 'auto', so that the extent of a
\* request chooses between the datasets 'c' and 'f', and with two levels.
NewGSHHSFeature ==
    /\ Imported /\ NumNew < MaxFeatures
    /\ GSHHSFeatureInit("auto", LevelsList(<<2, 1>>), KwargsNone)

RequestGSHHSGeometries ==
    /\ Imported /\ Len(iters) < MaxIters
    /\ \E fi \in Targets : GSHHSGeometries(fi)

RequestGSHHSIntersecting ==
    /\ Imported /\ Len(iters) < MaxIters
    /\ \E fi \in Targets : GSHHSIntersectingGeometries(fi, ExtentTiny)

StepGenerator ==
    \E i \in 1..Len(iters) : GeneratorNext(i)

NextGSHHS ==
    \/ ModuleBody
    \/ NewGSHHSFeature
    \/ RequestGSHHSGeometries
    \/ RequestGSHHSIntersecting
    \/ StepGenerator

SpecGSHHS == Init /\ [][NextGSHHS]_vars

----------------------------------------------------------------------------
(* C2 *)

\* The (scale, level) pair a generator is iterating over
CurrentKey(g) == <<g.scale, g.order[g.li]>>

C2_Inv ==
    /\ \A k \in GSHHSKeys : gshhsReads[k] <= 1
    /\ \A k \in DOMAIN gshhsCache :
          gshhsReads[k] = 1 /\ gshhsCache[k].items = GSHHSFile(k[1], k[2])
    /\ \A i \in 1..Len(iters) :
          iters[i].li >= 1 =>
              /\ CurrentKey(iters[i]) \in DOMAIN gshhsCache
              /\ iters[i].geoms = gshhsCache[CurrentKey(iters[i])]

C2_Step ==
    \A k \in DOMAIN gshhsCache :
        /\ k \in DOMAIN gshhsCache'
        /\ gshhsCache'[k] = gshhsCache[k]
        /\ gshhsReads'[k] = gshhsReads[k]

\* C2: whatever the interleaving of the steps of GSHHS generators of any
\* instances, the shapefile of a (scale, level) pair is read at most once,
\* and a generator that reaches a pair already loaded iterates over the
\* tuple the cache holds for it.
C2_GSHHSReadOnce == []C2_Inv /\ [][C2_Step]_vars

\* Two generators of different instances are both part way through the
\* same (scale, level) pair, whose file holds nothing to skip to, and it
\* was read once.
C2_Witness ==
    \E i, j \in 1..Len(iters) :
        /\ iters[i].feat # iters[j].feat
        /\ iters[i].pc = "running" /\ iters[j].pc = "running"
        /\ Len(iters[i].order) = 2 /\ iters[i].li = 2
        /\ iters[j].li >= 1
        /\ CurrentKey(iters[i]) = CurrentKey(iters[j])
        /\ iters[i].out # iters[j].out
        /\ gshhsReads[CurrentKey(iters[i])] = 1

----------------------------------------------------------------------------
(* All three classes together *)

\* The features requests are made on: COASTLINE and the instances
\* constructed after import.
FewTargets == {2} \cup (NumModuleFeatures + 1 .. Len(features))

ConstructShapely ==
    /\ Imported /\ NumNew < MaxAllFeatures
    /\ ShapelyFeatureInit(<<GeomNear, GeomFar>>, "PlateCarree", KwargsNone)

ConstructNaturalEarth ==
    /\ Imported /\ NumNew < MaxAllFeatures
    /\ NaturalEarthFeatureInit("physical", "coastline", "50m", KwargsRed)

ConstructGSHHS ==
    /\ Imported /\ NumNew < MaxAllFeatures
    /\ \E scale \in {"coarse", "bogus"} :
          GSHHSFeatureInit(scale, LevelsList(<<2, 1>>), KwargsNone)

CallGeometries ==
    /\ Imported
    /\ \E fi \in FewTargets : Geometries(fi)

CallIntersecting ==
    /\ Imported
    /\ \E fi \in FewTargets : IntersectingGeometries(fi, ExtentTiny)

CallGSHHSGeometries ==
    /\ Imported /\ Len(iters) < MaxAllIters
    /\ \E fi \in FewTargets : GSHHSGeometries(fi)

CallGSHHSIntersecting ==
    /\ Imported /\ Len(iters) < MaxAllIters
    /\ \E fi \in FewTargets : GSHHSIntersectingGeometries(fi, ExtentTiny)

Next ==
    \/ ModuleBody
    \/ ConstructShapely
    \/ ConstructNaturalEarth
    \/ ConstructGSHHS
    \/ CallGeometries
    \/ CallIntersecting
    \/ CallGSHHSGeometries
    \/ CallGSHHSIntersecting
    \/ StepGenerator

Spec == Init /\ [][Next]_vars

----------------------------------------------------------------------------
(* C3 *)

ConstructorOps == {"ShapelyFeature", "NaturalEarthFeature", "GSHHSFeature"}

\* The scale letter a request on the GSHHS feature f with the extent needs.
NeededScale(f, extent) ==
    IF f.scale = "auto" THEN ScaleFromExtent(extent) ELSE FirstLetter(f.scale)

C3_Step ==
    /\ result'.op \in ConstructorOps =>
          /\ neCache' = neCache /\ gshhsCache' = gshhsCache
          /\ neReads' = neReads /\ gshhsReads' = gshhsReads
    /\ \A k \in DOMAIN neCache' \ DOMAIN neCache :
          /\ result'.op \in {"geometries", "intersecting_geometries"}
          /\ features[result'.feat].cls = "NaturalEarthFeature"
          /\ NEKey(features[result'.feat]) = k
    /\ \A k \in DOMAIN gshhsCache' \ DOMAIN gshhsCache :
          /\ result'.op = "next"
          /\ features[iters[result'.ref].feat].cls = "GSHHSFeature"
          /\ k[2] \in features[iters[result'.ref].feat].levels
          /\ k[1] = NeededScale(features[iters[result'.ref].feat],
                                iters[result'.ref].extent)

C3_Start == neCache = EmptyDict /\ gshhsCache = EmptyDict

\* C3: both caches start empty; constructing a feature of any class (the
\* module-level ones included) reads no shapefile and leaves both caches as
\* they are; a key enters a cache only in a geometries() or
\* intersecting_geometries() request that needs the key.
C3_LazyLoading == C3_Start /\ [][C3_Step]_vars

\* Features of all three classes have been constructed after import, and
\* nothing has been read or cached.
C3_Witness ==
    /\ Imported
    /\ result.op \in ConstructorOps
    /\ \E i, j \in 1..Len(features) :
          /\ features[i].cls = "ShapelyFeature"
          /\ features[j].cls = "GSHHSFeature"
    /\ DOMAIN neCache = {} /\ DOMAIN gshhsCache = {}
    /\ \A k \in NEKeys : neReads[k] = 0
    /\ \A k \in GSHHSKeys : gshhsReads[k] = 0

----------------------------------------------------------------------------
(* GSHHSFeature construction over all its arguments *)

ScaleInputs == KnownScales \cup {"bogus", "AUTO", "medium", "m", ""}

LevelsInputs ==
    { LevelsNone, LevelsList(<<>>), LevelsList(<<1, 2, 3, 4>>),
      LevelsList(<<0, 1>>), LevelsList(<<5>>) }

TryGSHHSFeature ==
    /\ Imported /\ NumNew < MaxCtorFeatures
    /\ \E scale \in ScaleInputs, levels \in LevelsInputs :
          GSHHSFeatureInit(scale, levels, KwargsNone)

NextCtor ==
    \/ ModuleBody
    \/ TryGSHHSFeature
    \/ CallGeometries

SpecCtor == Init /\ [][NextCtor]_vars

----------------------------------------------------------------------------
(* C4 *)

ScaleNames == {"auto", "coarse", "low", "intermediate", "high", "full"}
ScaleAbbreviations == {"a", "c", "l", "i", "h", "f"}

\* The arguments of the last GSHHSFeature(...) call are acceptable.
C4_Acceptable ==
    /\ result.scale \in ScaleNames \cup ScaleAbbreviations
    /\ \/ result.levels.none
       \/ \A n \in 1..Len(result.levels.list) : result.levels.list[n] \in 1..4

C4_Inv ==
    result.op = "GSHHSFeature" =>
        /\ result.exc = "" <=> C4_Acceptable
        /\ result.exc \in {"", "ValueError: Unknown GSHHS scale",
                           "ValueError: Unknown GSHHS levels"}
        /\ result.scale \notin ScaleNames \cup ScaleAbbreviations =>
              result.exc = "ValueError: Unknown GSHHS scale"
        /\ result.exc = "" =>
              /\ result.feat = Len(features)
              /\ features[result.feat].cls = "GSHHSFeature"
              /\ features[result.feat].scale = result.scale
              /\ features[result.feat].levels =
                    IF result.levels.none THEN {1}
                    ELSE { result.levels.list[n] : n \in 1..Len(result.levels.list) }

C4_Step ==
    (result'.op = "GSHHSFeature" /\ result'.exc # "") =>
        /\ features' = features
        /\ neCache' = neCache /\ gshhsCache' = gshhsCache
        /\ neReads' = neReads /\ gshhsReads' = gshhsReads

\* C4: GSHHSFeature(...) succeeds exactly when the scale is one of the six
\* names or their one-letter abbreviations and every requested level is in
\* 1..4 (levels omitted means {1}); otherwise it raises ValueError, for the
\* scale first, and then no instance results and no cache entry is created
\* or changed.
C4_Construction == []C4_Inv /\ [][C4_Step]_vars

\* A construction with a good scale and all four levels succeeded while the
\* Natural Earth cache held an entry.
C4_Witness ==
    /\ result.op = "GSHHSFeature"
    /\ result.exc = ""
    /\ result.scale = "full"
    /\ features[result.feat].levels = {1, 2, 3, 4}
    /\ DOMAIN neCache # {}

----------------------------------------------------------------------------
(* The kwargs of a GSHHSFeature *)

KwargsInputs ==
    { [k \in keys |-> CASE k = "edgecolor" -> "red"
                        [] k = "facecolor" -> "blue"
                        [] OTHER -> "2"] :
        keys \in SUBSET {"edgecolor", "facecolor", "linewidth"} }

NewStyledGSHHSFeature ==
    /\ Imported /\ NumNew < MaxCtorFeatures
    /\ \E kw \in KwargsInputs : GSHHSFeatureInit("auto", LevelsNone, kw)

ReadKwargs ==
    /\ Imported /\ Cardinality(held) < MaxDicts
    /\ \E fi \in FewTargets : Kwargs(fi)

ChangeReturnedDict ==
    \E ref \in held : CallerSetItem(ref, "edgecolor", "green")

DeleteFromReturnedDict ==
    \E ref \in held : CallerDelItem(ref, "facecolor")

NextKwargs ==
    \/ ModuleBody
    \/ NewStyledGSHHSFeature
    \/ ReadKwargs
    \/ ChangeReturnedDict
    \/ DeleteFromReturnedDict

SpecKwargs == Init /\ [][NextKwargs]_vars

----------------------------------------------------------------------------
(* C6 *)

\* What the kwargs of a GSHHSFeature constructed with the kwargs p are to be.
C6_Expected(p) ==
    [k \in DOMAIN p \cup {"edgecolor", "facecolor"} |->
        IF k \in DOMAIN p THEN p[k]
        ELSE IF k = "edgecolor" THEN "black" ELSE "none"]

C6_Inv ==
    /\ \A fi \in 1..Len(features) :
          features[fi].cls = "GSHHSFeature" =>
              /\ features[fi].kwargs \notin held
              /\ dicts[features[fi].kwargs] = C6_Expected(passed[fi])
    /\ (result.op = "kwargs" /\ features[result.feat].cls = "GSHHSFeature") =>
          /\ result.ref # features[result.feat].kwargs
          /\ dicts[result.ref] = C6_Expected(passed[result.feat])

\* C6: the kwargs of a GSHHSFeature always hold edgecolor and facecolor,
\* with the caller's value where the caller passed one and 'black' and
\* 'none' otherwise, and every other kwarg of the caller unchanged; the
\* kwargs property returns a copy, so that whatever is done to a returned
\* dict, a kwargs read returns those same kwargs.
C6_Kwargs == C6_Inv

\* A kwargs read of a GSHHSFeature that was given a facecolor and no
\* edgecolor, made after a dict returned by an earlier read of the same
\* feature was changed.
C6_Witness ==
    /\ result.op = "kwargs"
    /\ features[result.feat].cls = "GSHHSFeature"
    /\ "facecolor" \in DOMAIN passed[result.feat]
    /\ "edgecolor" \notin DOMAIN passed[result.feat]
    /\ "linewidth" \in DOMAIN passed[result.feat]
    /\ \E ref \in held :
          /\ ref # result.ref
          /\ ref > features[result.feat].kwargs
          /\ dicts[ref] # dicts[result.ref]
          /\ DOMAIN dicts[ref] = DOMAIN dicts[result.ref]
          /\ dicts[ref]["linewidth"] = "2"

----------------------------------------------------------------------------
(* _scale_from_extent over extents of all sizes, signs and orders *)

\* Widths and heights on and next to every limit: 0, 0.05, 0.1, 0.15, 0.5,
\* 0.55, 2, 2.05, 10, 10.05, 20 and 20.05 degrees.
Sizes == {0, 1, 2, 3, 10, 11, 40, 41, 200, 201, 400, 401}

ScaleExtents ==
    { <<x0, x0 + sx * w, y0, y0 + sy * h>> :
        x0 \in {-1, 0}, y0 \in {0}, sx \in {-1, 1}, sy \in {-1, 1},
        w \in Sizes, h \in Sizes }

NewAutoGSHHSFeature ==
    /\ Imported /\ NumNew < MaxCtorFeatures
    /\ GSHHSFeatureInit("auto", LevelsNone, KwargsNone)

AskScale ==
    \E fi \in NumModuleFeatures + 1 .. Len(features),
       extent \in ScaleExtents \cup {NoExtent} :
          CallScaleFromExtent(fi, extent)

NextScale ==
    \/ ModuleBody
    \/ NewAutoGSHHSFeature
    \/ AskScale

SpecScale == Init /\ [][NextScale]_vars

----------------------------------------------------------------------------
(* C7 *)

\* m = min(|extent[1] - extent[0]|, |extent[3] - extent[2]|), in 1/20 degree
C7_m(extent) ==
    LET w == IF extent[2] >= extent[1] THEN extent[2] - extent[1]
             ELSE extent[1] - extent[2]
        h == IF extent[4] >= extent[3] THEN extent[4] - extent[3]
             ELSE extent[3] - extent[4]
    IN IF w < h THEN w ELSE h

\* The table of the claim, in 1/20 degree
C7_Table(m) ==
    CASE m = 0 -> "c"
      [] m > 400 -> "c"
      [] 200 < m /\ m <= 400 -> "l"
      [] 40 < m /\ m <= 200 -> "i"
      [] 10 < m /\ m <= 40 -> "h"
      [] 0 < m /\ m <= 10 -> "f"

====
